---- MODULE Spec2Model ----
(***************************************************************************)
(* GERDPy input preparation: the weather window extraction of              *)
(* weather_data.py (get_weather_data) and the heat-pipe layout of          *)
(* heatpipes.py (class Heatpipes).                                         *)
(*                                                                         *)
(* Tables are functions from 0-based row index to rows, rows are functions *)
(* from the 0-based column index used by data.iloc to a number.  Python    *)
(* lists and numpy vectors are sequences.  Quotients (x / 8, x / 100) are  *)
(* kept as exact fractions <<numerator, denominator>>.  The trigonometry   *)
(* of xy_mat is computed in fixed point with Scale units per 1.0.          *)
(* The table and the numpy vectors live in a heap of buffers, so that a    *)
(* store into a vector reaches exactly the cells the vector addresses.     *)
(***************************************************************************)
EXTENDS Integers, Sequences, FiniteSets, TLC

VARIABLES data, call, start_index, rows, ret, hp, xy

vars == <<data, call, start_index, rows, ret, hp, xy>>

\* ------------------------------------------------------------------------
\* Bounds of the model
\* ------------------------------------------------------------------------
MaxLen == 3          \* largest number of table rows
MaxNt == 4           \* largest requested number of timesteps
MaxN == 4            \* largest number of heatpipes
MaxRadius == 5       \* radii are drawn from 1..MaxRadius (length units)
Scale == 1000        \* fixed-point units per 1.0 in the trigonometry

\* no call made, no value yet
None == [status |-> "none"]

\* ------------------------------------------------------------------------
\* Python helpers
\* ------------------------------------------------------------------------
\* list(range(a, b, 1))
RangeList(a, b) == [k \in 1..(IF b > a THEN b - a ELSE 0) |-> a + k - 1]

\* len(data)
TableLen(d) == Cardinality(DOMAIN d)

\* data.index[(data.iloc[:, 0] == month) & (data.iloc[:, 1] == day)].tolist()
MatchList(d, month, day) ==
    SelectSeq(RangeList(0, TableLen(d)),
              LAMBDA i : d[i][0] = month /\ d[i][1] = day)

\* variant: .tolist()[-1]
LastMatch(m) == m[Len(m)]

\* .tolist()[0]
FirstMatch(m) == m[1]

\* variant: the contiguous branch stops one row early
SelectRowsShort(s, Nt, L) ==
    IF s + Nt > L
    THEN IF 0 # s
         THEN RangeList(s, L) \o RangeList(0, s)
         ELSE RangeList(0, L)
    ELSE RangeList(s, s + Nt - 1)

\* variant: the wrap-around branch wraps only the remainder (Nt rows)
SelectRowsRemainder(s, Nt, L) ==
    IF s + Nt > L
    THEN IF 0 # s
         THEN RangeList(s, L) \o RangeList(0, s + Nt - L)
         ELSE RangeList(0, L)
    ELSE RangeList(s, s + Nt)

\* variant: the zero-start branch drops the last row
SelectRowsZeroShort(s, Nt, L) ==
    IF s + Nt > L
    THEN IF 0 # s
         THEN RangeList(s, L) \o RangeList(0, s)
         ELSE RangeList(0, L - 1)
    ELSE RangeList(s, s + Nt)

\* the window selection, lines 27-33
SelectRows(s, Nt, L) ==
    IF s + Nt > L
    THEN IF 0 # s
         THEN RangeList(s, L) \o RangeList(0, s)
         ELSE RangeList(0, L)
    ELSE RangeList(s, s + Nt)

\* variant: data.iloc[:len(rows), c], the leading rows instead of the selected
ColumnPrefix(d, rws, c) == [k \in 1..Len(rws) |-> d[k - 1][c]]

\* np.array(data.iloc[rows, c]): a fresh vector holding column c of the
\* selected rows, in the order of rows
Column(d, rws, c) == [k \in 1..Len(rws) |-> d[rws[k]][c]]

\* vector / n, element-wise, as exact fractions
DivideBy(v, n) == [k \in 1..Len(v) |-> <<v[k], n>>]

\* ------------------------------------------------------------------------
\* Memory: the buffer of the table and the buffers of the numpy vectors
\* ------------------------------------------------------------------------
\* A heap holds the cells of the table and the buffers allocated so far.  A
\* vector is a reference [buf, addr]: buf = 0 names the table, whose cells
\* are addressed <<row, column>>; buf >= 1 names the buf-th allocated buffer,
\* whose cells are addressed by position.
HeapOf(d) == [table |-> d, bufs |-> <<>>]

\* reading element k of a vector
Load(h, a, k) ==
    IF a.buf = 0
    THEN h.table[a.addr[k][1]][a.addr[k][2]]
    ELSE h.bufs[a.buf][a.addr[k]]

\* a[k] = v: the store goes to the cell the vector addresses
Store(h, a, k, v) ==
    IF a.buf = 0
    THEN [h EXCEPT !.table[a.addr[k][1]][a.addr[k][2]] = v]
    ELSE [h EXCEPT !.bufs[a.buf][a.addr[k]] = v]

\* the elements of a vector, in order
Values(h, a) == [k \in 1..Len(a.addr) |-> Load(h, a, k)]

\* variant: the vector is a view of the table column (no copy is made), as
\* the .values of a column addressed through rows would be
NpArrayIlocView(h, rws, c) ==
    [heap |-> h,
     ref |-> [buf |-> 0, addr |-> [k \in 1..Len(rws) |-> <<rws[k], c>>]]]

\* np.array(data.iloc[rows, c]): iloc with a list of rows takes the selected
\* cells into a new Series and np.array copies them, so the vector lives in
\* a newly allocated buffer holding the selected values
NpArrayIloc(h, rws, c) ==
    [heap |-> [h EXCEPT !.bufs = Append(@, Column(h.table, rws, c))],
     ref |-> [buf |-> Len(h.bufs) + 1, addr |-> [k \in 1..Len(rws) |-> k]]]

\* variant: if j > 1
IsRainStrict(j) == j > 1

\* if j >= 1
IsRain(j) == j >= 1

\* for i, j in enumerate(Theta_inf): if j >= 1: S_w[i] = 0
\* (the iterations from position i on)
RECURSIVE ZeroRainFrom(_, _, _, _)
ZeroRainFrom(h, S_w, Theta, i) ==
    IF i > Len(Theta)
    THEN h
    ELSE ZeroRainFrom(IF IsRain(Theta[i]) THEN Store(h, S_w, i, 0) ELSE h,
                      S_w, Theta, i + 1)

\* the whole loop of lines 44-46: the heap after it
ZeroRain(h, S_w, Theta) == ZeroRainFrom(h, S_w, Theta, 1)

\* ------------------------------------------------------------------------
\* Input tables
\* ------------------------------------------------------------------------
Dates == {<<1, 1>>, <<1, 2>>}
Temps == {0, 1, 2}
Months == {1, 2}
Days == {1, 2}

\* columns: 0 month, 1 day, 2 hour, 3 precipitation, 4 temperature,
\*          5 relative humidity [%], 6 wind speed, 7 cloudiness [octas]
MkRow(i, date, temp) ==
    [c \in 0..7 |->
        CASE c = 0 -> date[1]
          [] c = 1 -> date[2]
          [] c = 2 -> i
          [] c = 3 -> i + 1
          [] c = 4 -> temp
          [] c = 5 -> 10 * (i + 1)
          [] c = 6 -> 2 * i + 3
          [] c = 7 -> (i + 1) % 9]

Tables ==
    UNION {
        { [i \in 0..(L - 1) |-> MkRow(i, dt[i], tp[i])] :
            dt \in [0..(L - 1) -> Dates], tp \in [0..(L - 1) -> Temps] } :
        L \in 0..MaxLen }

EmptyTable == [i \in {} |-> 0]

\* ------------------------------------------------------------------------
\* get_weather_data
\* ------------------------------------------------------------------------
GetWeatherData(Nt, month, day) ==
    LET m == MatchList(data, month, day) IN
    /\ call' = [status |-> "called", Nt |-> Nt, month |-> month, day |-> day]
    /\ IF m = <<>>
       THEN \* [][0] on an empty list; nothing has been stored
            /\ ret' = [status |-> "IndexError"]
            /\ start_index' = None
            /\ rows' = <<>>
            /\ data' = data
       ELSE \* each statement is bound to its value before the next one runs
            \E s \in {FirstMatch(m)} :
            \E rws \in {SelectRows(s, Nt, TableLen(data))} :
            \E u_inf \in {NpArrayIloc(HeapOf(data), rws, 6)} :
            \E Theta_inf \in {NpArrayIloc(u_inf.heap, rws, 4)} :
            \E S_w \in {NpArrayIloc(Theta_inf.heap, rws, 3)} :
            \E h1 \in {ZeroRain(S_w.heap, S_w.ref,
                                Values(S_w.heap, Theta_inf.ref))} :
            \E B \in {NpArrayIloc(h1, rws, 7)} :
            \E Phi \in {NpArrayIloc(B.heap, rws, 5)} :
            \E RR \in {NpArrayIloc(Phi.heap, rws, 3)} :
            \E h2 \in {RR.heap} :
               /\ start_index' = s
               /\ rows' = rws
               /\ ret' = [status |-> "ok",
                          u_inf |-> Values(h2, u_inf.ref),
                          Theta_inf |-> Values(h2, Theta_inf.ref),
                          S_w |-> Values(h2, S_w.ref),
                          B |-> DivideBy(Values(h2, B.ref), 8),
                          Phi |-> DivideBy(Values(h2, Phi.ref), 100),
                          RR |-> Values(h2, RR.ref)]
               \* the table as the call leaves it
               /\ data' = h2.table
    /\ UNCHANGED <<hp, xy>>

Init ==
    /\ data \in Tables
    /\ call = None
    /\ start_index = None
    /\ rows = <<>>
    /\ ret = None
    /\ hp = None
    /\ xy = None

Next == \E Nt \in 1..MaxNt, month \in Months, day \in Days :
            GetWeatherData(Nt, month, day)

Spec == Init /\ [][Next]_vars

\* ------------------------------------------------------------------------
\* Fixed-point trigonometry (np.cos, np.sin, scipy.constants.pi)
\* ------------------------------------------------------------------------
\* pi, in units of 1/Scale, from the convergent 355/113, rounded
PiFix == (355 * Scale + 56) \div 113
TwoPi == 2 * PiFix
HalfPi == PiFix \div 2

\* Taylor polynomials, used on [0, pi/4]
CosT(x) ==
    LET x2 == (x * x) \div Scale IN
    Scale - x2 \div 2 + (x2 * x2) \div (24 * Scale)
          - (x2 * x2 * x2) \div (720 * Scale * Scale)

SinT(x) ==
    LET x2 == (x * x) \div Scale IN
    x - (x * x2) \div (6 * Scale) + (x * x2 * x2) \div (120 * Scale * Scale)

\* on [0, pi/2]
CosQ(x) == IF 2 * x > HalfPi THEN SinT(HalfPi - x) ELSE CosT(x)
SinQ(x) == IF 2 * x > HalfPi THEN CosT(HalfPi - x) ELSE SinT(x)

\* np.cos
CosFix(t) ==
    LET a == t % TwoPi IN
    IF a <= HalfPi THEN CosQ(a)
    ELSE IF a <= PiFix THEN -CosQ(PiFix - a)
    ELSE IF a <= PiFix + HalfPi THEN -CosQ(a - PiFix)
    ELSE CosQ(TwoPi - a)

\* np.sin
SinFix(t) ==
    LET a == t % TwoPi IN
    IF a <= HalfPi THEN SinQ(a)
    ELSE IF a <= PiFix THEN SinQ(PiFix - a)
    ELSE IF a <= PiFix + HalfPi THEN -SinQ(a - PiFix)
    ELSE -SinQ(TwoPi - a)

\* ------------------------------------------------------------------------
\* class Heatpipes
\* ------------------------------------------------------------------------
\* int(x) of the number num/den (den > 0): truncation towards zero
PyInt(num, den) == IF num >= 0 THEN num \div den ELSE -((-num) \div den)

\* variant: 2 * pi * i / (self.N + 1)
AngleOpen(i, N) == (2 * PiFix * i) \div (N + 1)

\* 2 * pi * i / self.N
Angle(i, N) == (2 * PiFix * i) \div N

\* Heatpipes.__init__; N is the number nHalves/2, the radii are whole length
\* units and the conductivities whole W/mK, which float() leaves unchanged.
\* An object is constructed once.
HeatpipesInit(nHalves, r_b, r_w, r_iso_a, r_pa, r_pi, lambda_b, lambda_iso, lambda_p) ==
    /\ hp = None
    /\ hp' = [status |-> "ok", N |-> PyInt(nHalves, 2), r_b |-> r_b,
              r_w |-> r_w, r_iso_a |-> r_iso_a, r_pa |-> r_pa, r_pi |-> r_pi,
              lambda_b |-> lambda_b, lambda_iso |-> lambda_iso,
              lambda_p |-> lambda_p]
    /\ xy' = None
    /\ UNCHANGED <<data, call, start_index, rows, ret>>

\* Heatpipes.xy_mat; coordinates in units of 1/Scale
XyMat ==
    /\ hp.status = "ok"
    /\ xy = None
    /\ IF hp.N < 0
       THEN \* np.zeros([self.N, 2]) with a negative dimension
            xy' = [status |-> "ValueError"]
       ELSE xy' = [status |-> "ok",
                   mat |-> [k \in 1..hp.N |->
                              <<hp.r_w * CosFix(Angle(k - 1, hp.N)),
                                hp.r_w * SinFix(Angle(k - 1, hp.N))>>]]
    /\ UNCHANGED <<data, call, start_index, rows, ret, hp>>

Radii == 1..MaxRadius
NHalves == (-2)..(2 * MaxN)

InitHP ==
    /\ data = EmptyTable
    /\ call = None
    /\ start_index = None
    /\ rows = <<>>
    /\ ret = None
    /\ hp = None
    /\ xy = None

NextHP ==
    \/ /\ hp = None
       /\ \E nHalves \in NHalves, r_b, r_w, r_iso_a, r_pa, r_pi \in Radii :
           HeatpipesInit(nHalves, r_b, r_w, r_iso_a, r_pa, r_pi, 2, 1, 14)
    \/ XyMat

SpecHP == InitHP /\ [][NextHP]_vars

\* ------------------------------------------------------------------------
\* Properties of get_weather_data (checked under Spec)
\* ------------------------------------------------------------------------
Called == call.status = "called"
Ok == ret.status = "ok"
L == TableLen(data)
MatchSet == IF Called
            THEN {i \in DOMAIN data :
                     data[i][0] = call.month /\ data[i][1] = call.day}
            ELSE {}
SeriesLen(n) ==
    /\ Len(ret.u_inf) = n
    /\ Len(ret.Theta_inf) = n
    /\ Len(ret.S_w) = n
    /\ Len(ret.B) = n
    /\ Len(ret.Phi) = n
    /\ Len(ret.RR) = n
Injective(q) == \A a, b \in 1..Len(q) : q[a] = q[b] => a = b

\* C1: when start_index + Nt <= len(data) the selected rows are exactly
\* start_index, start_index+1, ..., start_index+Nt-1 in that order, and every
\* output series has length Nt.
C1_ContiguousWindow ==
    (Ok /\ start_index + call.Nt <= L) =>
        /\ Len(rows) = call.Nt
        /\ \A k \in 1..call.Nt : rows[k] = start_index + k - 1
        /\ SeriesLen(call.Nt)

C1_Witness ==
    /\ Ok
    /\ start_index >= 1
    /\ call.Nt >= 2
    /\ start_index + call.Nt <= L

\* C2: when 0 < start_index and start_index + Nt > len(data) the selected rows
\* are start_index, ..., L-1 followed by 0, ..., start_index-1; every output
\* series has the length L of the table, whatever Nt was.
C2_WrapAroundWindow ==
    (Ok /\ start_index > 0 /\ start_index + call.Nt > L) =>
        /\ Len(rows) = L
        /\ \A k \in 1..L :
              rows[k] = IF k <= L - start_index
                        THEN start_index + k - 1
                        ELSE k - 1 - (L - start_index)
        /\ SeriesLen(L)

C2_Witness ==
    /\ Ok
    /\ start_index > 0
    /\ start_index + call.Nt > L
    /\ call.Nt < L
    /\ Len(rows) > call.Nt

\* C3: when start_index = 0 and Nt exceeds len(data) the selected rows are
\* 0, ..., L-1 in table order, and every output series has length L.
C3_ZeroStartOverflow ==
    (Ok /\ start_index = 0 /\ call.Nt > L) =>
        /\ Len(rows) = L
        /\ \A k \in 1..L : rows[k] = k - 1
        /\ SeriesLen(L)

C3_Witness ==
    /\ Ok
    /\ start_index = 0
    /\ call.Nt > L
    /\ L >= 2
    /\ Len(rows) = L

\* C4: a requested (month, day) that no row of the table carries is reported
\* as NotFoundError (and not as the IndexError of indexing an empty list).
C4_MissingDateIsNotFoundError ==
    (Called /\ MatchSet = {}) => ret.status = "NotFoundError"

\* C5: for every selected row k, snowfall_rate[k] is 0 when
\* ambient_temperature[k] >= 1 and the raw precipitation of that row
\* otherwise; total_precipitation[k] is the raw precipitation in both cases.
C5_SnowfallZeroedTotalRaw ==
    Ok => \A k \in 1..Len(rows) :
            /\ ret.S_w[k] = IF ret.Theta_inf[k] >= 1 THEN 0
                            ELSE data[rows[k]][3]
            /\ ret.RR[k] = data[rows[k]][3]

C5_Witness ==
    /\ Ok
    /\ \E k \in 1..Len(rows) :
          ret.Theta_inf[k] = 1 /\ ret.S_w[k] = 0 /\ ret.RR[k] > 0
    /\ \E k \in 1..Len(rows) :
          ret.Theta_inf[k] < 1 /\ ret.S_w[k] > 0 /\ ret.S_w[k] = ret.RR[k]

\* C7: the start index is the smallest row index carrying the requested
\* (month, day), and the returned window begins with that row in every
\* branch of the window selection.
C7_FirstMatchingRow ==
    Ok => /\ start_index \in MatchSet
          /\ \A i \in MatchSet : start_index <= i
          /\ Len(rows) >= 1
          /\ rows[1] = start_index
          /\ ret.Theta_inf[1] = data[start_index][4]

C7_Witness ==
    /\ Ok
    /\ Cardinality(MatchSet) >= 2
    /\ start_index >= 1
    /\ start_index + call.Nt > L
    /\ rows[1] = start_index

\* C9: the six series have the length of the selected row list, element k of
\* each is derived from table row rows[k], the length never exceeds the
\* table length and no table row is selected twice.
C9_SeriesAligned ==
    Ok => /\ SeriesLen(Len(rows))
          /\ Len(rows) <= L
          /\ Injective(rows)
          /\ \A k \in 1..Len(rows) :
                /\ rows[k] \in DOMAIN data
                /\ ret.u_inf[k] = data[rows[k]][6]
                /\ ret.Theta_inf[k] = data[rows[k]][4]
                /\ ret.S_w[k] \in {0, data[rows[k]][3]}
                /\ ret.B[k] = <<data[rows[k]][7], 8>>
                /\ ret.Phi[k] = <<data[rows[k]][5], 100>>
                /\ ret.RR[k] = data[rows[k]][3]

C9_Witness ==
    /\ Ok
    /\ Len(rows) >= 3
    /\ rows[1] > rows[Len(rows)]
    /\ ret.u_inf[1] = data[rows[1]][6]
    /\ ret.u_inf[1] # data[0][6]

\* C10: a call never changes a cell of the table, also when the window holds
\* rows with ambient_temperature >= 1 whose snowfall entry is overwritten
\* with 0; calling again with the same arguments returns the same series.
C10_TableNeverMutated ==
    [][ /\ data' = data
        /\ (Called /\ call' = call) => ret' = ret ]_vars

C10_Witness ==
    /\ Ok
    /\ \E k \in 1..Len(rows) :
          /\ data[rows[k]][4] >= 1
          /\ ret.S_w[k] = 0
          /\ data[rows[k]][3] # 0

\* ------------------------------------------------------------------------
\* Properties of Heatpipes (checked under SpecHP)
\* ------------------------------------------------------------------------
Abs(x) == IF x < 0 THEN -x ELSE x
\* admitted error of a fixed-point cosine or sine, in units of 1/Scale
TrigErr == 3
Tol(r) == 4 * TrigErr * Scale * r * r
Dot(p, q) == p[1] * q[1] + p[2] * q[2]
Cross(p, q) == p[1] * q[2] - p[2] * q[1]

\* C6: for count >= 1 and r_w > 0, xy_mat returns exactly count pairs; pair 0
\* is (r_w, 0), every pair lies on the circle of radius r_w around the
\* origin, and each pair is the preceding one turned by 2*pi/count (the
\* first being the last one turned by 2*pi/count), up to the rounding of the
\* fixed-point arithmetic.
C6_PipeCenters ==
    (xy.status = "ok" /\ hp.N >= 1 /\ hp.r_w > 0) =>
        LET n == hp.N
            r == hp.r_w
            step == TwoPi \div n
        IN /\ Len(xy.mat) = n
           /\ xy.mat[1] = <<r * Scale, 0>>
           /\ \A k \in 1..n :
                 /\ Abs(Dot(xy.mat[k], xy.mat[k]) - r * r * Scale * Scale)
                       <= Tol(r)
                 /\ Abs(Dot(xy.mat[k], xy.mat[(k % n) + 1])
                          - r * r * Scale * CosFix(step)) <= Tol(r)
                 /\ Abs(Cross(xy.mat[k], xy.mat[(k % n) + 1])
                          - r * r * Scale * SinFix(step)) <= Tol(r)

C6_Witness ==
    /\ xy.status = "ok"
    /\ hp.N >= 3
    /\ hp.r_w >= 2
    /\ Len(xy.mat) = hp.N
    /\ xy.mat[2][2] > 0

\* C8: a configuration whose radii are not strictly nested
\* (r_pi < r_pa < r_iso_a < r_w < r_b) or whose count is negative is rejected
\* at construction, so no constructed object violates the ordering.
C8_InvalidConfigurationRejected ==
    hp.status = "ok" =>
        /\ hp.r_pi < hp.r_pa
        /\ hp.r_pa < hp.r_iso_a
        /\ hp.r_iso_a < hp.r_w
        /\ hp.r_w < hp.r_b
        /\ hp.N >= 0

====
